---- MODULE Spec2Model ----
(***************************************************************************)
(* SwiftShip agent runtime: the converse loop of utils/agents.mjs, the     *)
(* domain tools it dispatches to (allocateInventory, changeOrderStatus,    *)
(* duplicateOrder, processRefund, sendCustomerEmail) and the DynamoDB      *)
(* table those tools read and write.                                       *)
(*                                                                         *)
(* Spec      : one run of converse, tool handlers run to completion.       *)
(* SpecTools : tool handlers invoked directly by two concurrent callers,   *)
(*             interleaved at every store operation (await).               *)
(*                                                                         *)
(* Strings that the code builds by template literals (partition and sort   *)
(* keys) are tuples of tokens; the separator "#" is a token of its own.    *)
(***************************************************************************)
EXTENDS Integers, Sequences, FiniteSets, TLC

VARIABLES
  db,          \* DynamoDB table: function from <<pk, sk>> to the stored item
  nextId,      \* per caller, the number of randomUUID() values drawn so far
  lastAccess,  \* instrumentation: the store accesses of the latest step, with the caller's tenant argument
  outbox,      \* number of emails handed to SES
  inv,         \* SpecTools: per caller, the handler invocation in flight
  invCount,    \* SpecTools: number of invocations started
  faults,      \* SpecTools: number of store operations that failed
  pc,            \* converse: "start", "model", "tools", "finish", "returned", "thrown"
  options,       \* converse: the caller-supplied options argument
  memory,        \* AgentCore memory: the events stored for the session
  conversation,  \* converse: the conversation loaded from memory
  messages,      \* converse: the history of this run
  iteration,     \* converse: loop counter
  finalResponse, \* converse: text chosen as the answer, <<>> while there is none
  result,        \* converse: the returned string, or the message of the error thrown
  toolUseItems,  \* converse: tool calls of the current turn not yet processed
  message,       \* converse: the tool-result message under construction
  calls,         \* instrumentation: every handler invocation with its positional arguments
  modelCalls,    \* instrumentation: number of bedrock.send calls
  request,       \* instrumentation: the messages handed to the latest bedrock.send
  nextToolUseId, \* source of the model's toolUseId values
  cancelAt,      \* task: the iteration in which the task was cancelled, -1 while it is not
  dpc,           \* delivery status handler: "idle", "store", "publish", "token", "done"
  dreq,          \* delivery status handler: the request being handled
  dres,          \* delivery status handler: the response returned
  clock,         \* the time new Date() reads
  bus,           \* EventBridge: the delivery events published
  tpc,           \* triage handler: "idle", "sending", "done"
  tevent,        \* triage handler: the event being handled
  tres,          \* triage handler: the value returned
  agent,         \* agent Lambda: the module-level variable agent
  registry,      \* agent directory: the cards registered by createAgent, in order
  ginv,          \* agent Lambda: per concurrent invocation, its position and what it holds
  spc,           \* submitException: "idle", "request", "delay", "returned", "thrown"
  sinput,        \* submitException: its arguments
  attempt,       \* submitException: loop counter
  slog,          \* instrumentation: the outcome of every makeRequest call, in order
  lastError,     \* submitException: the error of the latest failed attempt
  sres,          \* submitException: the value returned or the error thrown
  cpc,           \* cleanupExistingData: "idle", "loop", "returned", "thrown"
  ctenant,       \* cleanupExistingData: its tenantId argument
  ctable,        \* the table as Scan walks it: the tenant of each item, in scan order
  cscans         \* instrumentation: number of Scan calls of this run

(***************************************************************************)
(* Bounds                                                                  *)
(***************************************************************************)
MaxInvocations == 2   \* SpecTools: handler invocations per behaviour
MaxFaults == 1        \* SpecTools: failing store operations per behaviour
MaxVaried == 1        \* converse: iterations in which the model chooses its response
                      \* freely; later on a tool-calling response re-issues the turn
                      \* before it, a response without content is not drawn, and the
                      \* only final answer is LateAnswer (up to iteration MaxVaried + 1
                      \* every final answer is drawn)

(***************************************************************************)
(* Data                                                                    *)
(***************************************************************************)
Tenants == {"A", "B"}
NoTenant == "undefined"          \* a missing (falsy) tenant id
Procs == {1, 2}

OrderIds == {"o1", "o9"}         \* o9 is not in the table
ProductIds == {"p1", "p9"}       \* p9 is not in the table
Quantities == {-1, 1, 2}         \* -1 violates the schema
InitialStock == 2

MultiTenantTools == {"allocateInventory", "changeOrderStatus", "duplicateOrder", "processRefund"}
SingleTenantTools == {"sendCustomerEmail"}
ToolNames == MultiTenantTools \cup SingleTenantTools

\* allocate-inventory.mjs:9, :114; duplicate-order:17; process-refund.mjs:9; send-email.mjs:7
isMultiTenant(tool) == tool \in MultiTenantTools

AllocInputs == [orderId : {"o1"}, productId : ProductIds, quantity : Quantities]
StatusInputs == [orderId : OrderIds, newStatus : {"pending", "shipped", "cancelled"}]
DupInputs == [originalOrderId : OrderIds]
RefundInputs == [orderId : {"o1"}, refundAmount : {-5, 20}, reason : {"delivery_failed"}]
EmailInputs == [toEmail : {"c@x"}, subject : {"s"}, messageHtml : {"m"}]

InputsOf(tool) ==
  CASE tool = "allocateInventory" -> AllocInputs
    [] tool = "changeOrderStatus" -> StatusInputs
    [] tool = "duplicateOrder" -> DupInputs
    [] tool = "processRefund" -> RefundInputs
    [] OTHER -> EmailInputs

\* the inputs the direct callers of SpecTools draw from: one missing record
\* (duplicateOrder of o9), one schema violation (quantity -1)
DirectInputs(tool) ==
  CASE tool = "allocateInventory" -> {i \in AllocInputs : i.productId = "p1"}
    [] tool = "changeOrderStatus" -> {i \in StatusInputs : i.orderId = "o1"}
    [] tool = "duplicateOrder" -> DupInputs
    [] OTHER -> {i \in RefundInputs : i.refundAmount > 0}

\* the zod schemas: quantity int().positive(), refundAmount positive(), ids min(1)
SchemaValid(tool, input) ==
  CASE tool = "allocateInventory" -> input.quantity > 0
    [] tool = "processRefund" -> input.refundAmount > 0
    [] OTHER -> TRUE

(***************************************************************************)
(* The table                                                               *)
(***************************************************************************)
\* a partition key that ignores the caller's tenant
PkShared(tenantId, kind) == <<"A", "#", kind>>
\* allocate-inventory.mjs:30: pk = `${tenantId}#inventory`
Pk(tenantId, kind) == <<tenantId, "#", kind>>
Sk(kind, id) == <<kind, "#", id>>
KeyTenant(key) == key[1][1]      \* the token before the first "#" of pk

NoItem == [missing |-> TRUE]

GetItem(table, key) == IF key \in DOMAIN table THEN table[key] ELSE NoItem
PutItem(table, key, item) == [k \in (DOMAIN table) \cup {key} |-> IF k = key THEN item ELSE table[k]]

SeedOrder(t) == [orderId |-> "o1", status |-> "pending", statusHistory |-> <<>>,
                 GSI1PK |-> <<t, "#", "orders", "#", "pending">>]
SeedInventory == [availableQuantity |-> InitialStock, allocatedQuantity |-> 0]

\* both tenants hold identically named records
SeedTable ==
  [k \in {<<Pk(t, "orders"), Sk("order", "o1")>> : t \in Tenants}
         \cup {<<Pk(t, "inventory"), Sk("product", "p1")>> : t \in Tenants}
     |-> IF k[1][3] = "orders" THEN SeedOrder(k[1][1]) ELSE SeedInventory]

(***************************************************************************)
(* Tool handlers.  A handler invocation is a record h: the tool, the two   *)
(* positional arguments as the handler's parameters receive them, the      *)
(* position pcH (the next store operation to issue), the item it read, the *)
(* value it returns.  One step runs the code up to and including the next  *)
(* awaited store operation; fail says that this operation throws.          *)
(***************************************************************************)
Idle == [pcH |-> "idle"]

\* crypto.randomUUID(): the n-th value drawn by caller p; no two draws agree
Uuid(p, n) == ToString(p) \o "-" \o ToString(n)

NewInvocation(tool, tenantId, input, id) ==
  [tool |-> tool, tenantId |-> tenantId, input |-> input, pcH |-> "entry",
   item |-> NoItem, ret |-> "", id |-> id]

Return(h, r) == [h EXCEPT !.pcH = "done", !.ret = r]
Access(h, key, op) == {[ctx |-> h.tenantId, key |-> key, op |-> op]}
Outcome(h, table, acc, sent) == [h |-> h, db |-> table, acc |-> acc, sent |-> sent]

\* allocate-inventory.mjs:18-104
allocateInventoryStep(h, table, fail) ==
  LET key == <<Pk(h.tenantId, "inventory"), Sk("product", h.input.productId)>>
      allocKey == <<Pk(h.tenantId, "allocations"), <<h.input.orderId, "#", h.input.productId>>>>
      quantity == h.input.quantity
  IN
  CASE h.pcH = "entry" ->
         IF h.tenantId = NoTenant
         THEN Outcome(Return(h, "Unauthorized"), table, {}, 0)
         ELSE IF fail
         THEN Outcome(Return(h, "AllocError"), table, Access(h, key, "read"), 0)
         ELSE Outcome([h EXCEPT !.pcH = "put", !.item = GetItem(table, key)],
                      table, Access(h, key, "read"), 0)
    [] h.pcH = "put" ->
         IF h.item = NoItem
         THEN Outcome(Return(h, "ProductNotFound"), table, {}, 0)
         ELSE IF h.item.availableQuantity < quantity
         THEN Outcome(Return(h, "Insufficient"), table, {}, 0)
         ELSE IF fail
         THEN Outcome(Return(h, "AllocError"), table, Access(h, allocKey, "write"), 0)
         ELSE Outcome([h EXCEPT !.pcH = "update"],
                      PutItem(table, allocKey,
                              [allocationId |-> h.id, orderId |-> h.input.orderId,
                               productId |-> h.input.productId,
                               quantityAllocated |-> quantity, status |-> "allocated"]),
                      Access(h, allocKey, "write"), 0)
    [] OTHER ->  \* "update": SET availableQuantity, allocatedQuantity from the values read
         IF fail
         THEN Outcome(Return(h, "AllocError"), table, Access(h, key, "write"), 0)
         ELSE Outcome(Return(h, "Allocated"),
                      PutItem(table, key,
                              [availableQuantity |-> h.item.availableQuantity - quantity,
                               allocatedQuantity |-> h.item.allocatedQuantity + quantity]),
                      Access(h, key, "write"), 0)

\* changeOrderStatus without the test of lines 148-151
changeOrderStatusStepAlways(h, table, fail) ==
  LET key == <<Pk(h.tenantId, "orders"), Sk("order", h.input.orderId)>>
      newStatus == h.input.newStatus
  IN
  CASE h.pcH = "entry" ->
         IF h.tenantId = NoTenant
         THEN Outcome(Return(h, "Unauthorized"), table, {}, 0)
         ELSE IF fail
         THEN Outcome(Return(h, "StatusError"), table, Access(h, key, "read"), 0)
         ELSE Outcome([h EXCEPT !.pcH = "update", !.item = GetItem(table, key)],
                      table, Access(h, key, "read"), 0)
    [] OTHER ->  \* "update"
         IF h.item = NoItem
         THEN Outcome(Return(h, "OrderNotFound"), table, {}, 0)
         ELSE IF fail
         THEN Outcome(Return(h, "StatusError"), table, Access(h, key, "write"), 0)
         ELSE IF key \notin DOMAIN table  \* ConditionExpression attribute_exists(pk) AND attribute_exists(sk)
         THEN Outcome(Return(h, "NotFoundOrModified"), table, Access(h, key, "write"), 0)
         ELSE Outcome(Return(h, "StatusChanged"),
                      PutItem(table, key,
                              [table[key] EXCEPT
                                 !.status = newStatus,
                                 !.statusHistory = Append(table[key].statusHistory, newStatus),
                                 !.GSI1PK = <<h.tenantId, "#", "orders", "#", newStatus>>]),
                      Access(h, key, "write"), 0)

\* allocate-inventory.mjs:124-208 (change-order-status)
changeOrderStatusStep(h, table, fail) ==
  LET key == <<Pk(h.tenantId, "orders"), Sk("order", h.input.orderId)>>
      newStatus == h.input.newStatus
  IN
  CASE h.pcH = "entry" ->
         IF h.tenantId = NoTenant
         THEN Outcome(Return(h, "Unauthorized"), table, {}, 0)
         ELSE IF fail
         THEN Outcome(Return(h, "StatusError"), table, Access(h, key, "read"), 0)
         ELSE Outcome([h EXCEPT !.pcH = "update", !.item = GetItem(table, key)],
                      table, Access(h, key, "read"), 0)
    [] OTHER ->  \* "update"
         IF h.item = NoItem
         THEN Outcome(Return(h, "OrderNotFound"), table, {}, 0)
         ELSE IF h.item.status = newStatus
         THEN Outcome(Return(h, "AlreadyInStatus"), table, {}, 0)
         ELSE IF fail
         THEN Outcome(Return(h, "StatusError"), table, Access(h, key, "write"), 0)
         ELSE IF key \notin DOMAIN table  \* ConditionExpression attribute_exists(pk) AND attribute_exists(sk)
         THEN Outcome(Return(h, "NotFoundOrModified"), table, Access(h, key, "write"), 0)
         ELSE Outcome(Return(h, "StatusChanged"),
                      PutItem(table, key,
                              [table[key] EXCEPT
                                 !.status = newStatus,
                                 !.statusHistory = Append(table[key].statusHistory, newStatus),
                                 !.GSI1PK = <<h.tenantId, "#", "orders", "#", newStatus>>]),
                      Access(h, key, "write"), 0)

\* duplicate-order.mjs:26-116
duplicateOrderStep(h, table, fail) ==
  LET pk == Pk(h.tenantId, "orders")
      key == <<pk, Sk("order", h.input.originalOrderId)>>
      newOrderId == h.id
      newKey == <<pk, Sk("order", newOrderId)>>
  IN
  CASE h.pcH = "entry" ->
         IF h.tenantId = NoTenant
         THEN Outcome(Return(h, "Unauthorized"), table, {}, 0)
         ELSE IF fail
         THEN Outcome(Return(h, "DuplicateError"), table, Access(h, key, "read"), 0)
         ELSE Outcome([h EXCEPT !.pcH = "put", !.item = GetItem(table, key)],
                      table, Access(h, key, "read"), 0)
    [] OTHER ->  \* "put"
         IF h.item = NoItem
         THEN Outcome(Return(h, "OriginalNotFound"), table, {}, 0)
         ELSE IF fail
         THEN Outcome(Return(h, "DuplicateError"), table, Access(h, newKey, "write"), 0)
         ELSE IF newKey \in DOMAIN table  \* ConditionExpression attribute_not_exists
         THEN Outcome(Return(h, "DuplicateConflict"), table, Access(h, newKey, "write"), 0)
         ELSE Outcome(Return(h, "Duplicated"),
                      PutItem(table, newKey,
                              [h.item EXCEPT
                                 !.orderId = newOrderId,
                                 !.status = "pending",
                                 !.statusHistory = <<"pending">>,
                                 !.GSI1PK = <<h.tenantId, "#", "orders", "#", "pending">>]),
                      Access(h, newKey, "write"), 0)

\* process-refund.mjs:18-67
processRefundStep(h, table, fail) ==
  LET refundId == "ref_" \o h.id
      key == <<Pk(h.tenantId, "refunds"), Sk("refund", refundId)>>
  IN
  IF h.tenantId = NoTenant
  THEN Outcome(Return(h, "Unauthorized"), table, {}, 0)
  ELSE IF fail
  THEN Outcome(Return(h, "RefundFailed"), table, Access(h, key, "write"), 0)
  ELSE Outcome(Return(h, "RefundProcessed"),
               PutItem(table, key,
                       [refundId |-> refundId, orderId |-> h.input.orderId,
                        refundAmount |-> h.input.refundAmount, reason |-> h.input.reason,
                        status |-> "completed"]),
               Access(h, key, "write"), 0)

\* send-email.mjs:15-37 (single-tenant: the only parameter is the input)
sendCustomerEmailStep(h, table, fail) ==
  IF fail
  THEN Outcome(Return(h, "EmailFailed"), table, {}, 0)
  ELSE Outcome(Return(h, "EmailSent"), table, {}, 1)

HandlerStep(h, table, fail) ==
  CASE h.tool = "allocateInventory" -> allocateInventoryStep(h, table, fail)
    [] h.tool = "changeOrderStatus" -> changeOrderStatusStep(h, table, fail)
    [] h.tool = "duplicateOrder" -> duplicateOrderStep(h, table, fail)
    [] h.tool = "processRefund" -> processRefundStep(h, table, fail)
    [] OTHER -> sendCustomerEmailStep(h, table, fail)

\* a handler run without interleaving and without store failures
RECURSIVE RunHandler(_, _, _, _)
RunHandler(h, table, acc, sent) ==
  IF h.pcH = "done"
  THEN Outcome(h, table, acc, sent)
  ELSE LET o == HandlerStep(h, table, FALSE)
       IN RunHandler(o.h, o.db, acc \cup o.acc, sent + o.sent)

(***************************************************************************)
(* converse (utils/agents.mjs).  Texts are tuples of tokens; "" is <<>>.   *)
(***************************************************************************)
MAX_ITERATIONS == 10

\* the loop test off by one
KeepLoopingInclusive(i) == i <= MAX_ITERATIONS
\* agents.mjs:18: while (iteration < MAX_ITERATIONS)
KeepLooping(i) == i < MAX_ITERATIONS

NoText == <<>>
TextItem(t) == [text |-> t]
ToolUseItem(name, input, id) == [toolUse |-> [name |-> name, input |-> input, toolUseId |-> id]]
ToolResultItem(id, toolResult) == [toolResult |-> [toolUseId |-> id, content |-> <<[text |-> toolResult]>>]]
isToolResult(item) == "toolResult" \in DOMAIN item

\* unshift in place of push
unshiftResult(content, item) == <<item>> \o content
\* agents.mjs:76: message.content.push({ toolResult: toolResultBlock })
pushResult(content, item) == Append(content, item)

\* item => 'toolUse' in item && !!item.toolUse ; item => 'text' in item && !!item.text
isToolUse(item) == "toolUse" \in DOMAIN item
isText(item) == "text" \in DOMAIN item /\ item.text # NoText

\* items.map(item => item.text).join('')
RECURSIVE JoinTexts(_)
JoinTexts(items) == IF items = <<>> THEN NoText ELSE Head(items).text \o JoinTexts(Tail(items))

RECURSIVE TrimLeft(_)
TrimLeft(t) == IF t # <<>> /\ Head(t) = " " THEN TrimLeft(Tail(t)) ELSE t
RECURSIVE TrimRight(_)
TrimRight(t) == IF t # <<>> /\ t[Len(t)] = " " THEN TrimRight(SubSeq(t, 1, Len(t) - 1)) ELSE t
trim(t) == TrimRight(TrimLeft(t))

\* least index >= from at which tok occurs, 0 if none
IndexFrom(t, tok, from) ==
  LET hits == {j \in from..Len(t) : t[j] = tok}
  IN IF hits = {} THEN 0 ELSE CHOOSE j \in hits : \A k \in hits : j <= k

\* text.replace(/<thinking>[\s\S]*?<\/thinking>\s*/g, '')
RECURSIVE stripThinking(_)
stripThinking(t) ==
  LET open == IndexFrom(t, "<thinking>", 1)
      close == IF open = 0 THEN 0 ELSE IndexFrom(t, "</thinking>", open + 1)
  IN IF close = 0 THEN t
     ELSE SubSeq(t, 1, open - 1) \o stripThinking(TrimLeft(SubSeq(t, close + 1, Len(t))))

sanitizeResponse(text, preserveThinkingTags) ==
  IF preserveThinkingTags THEN trim(text) ELSE trim(stripThinking(text))

\* the options argument; sessionId && actorId is the one flag memory
NoOptions == [undefined |-> TRUE]
\* the runs are tenant A's or carry no tenant id; a publisher and the memory
\* are combined with tenant A only
OptionChoices ==
  {NoOptions} \cup
  {o \in [tenantId : {"A", NoTenant},
          publishUpdate : {"absent", "resolves", "rejects"},
          memory : BOOLEAN] :
     /\ o.memory => o.publishUpdate = "absent"
     /\ o.tenantId = NoTenant => (~ o.memory /\ o.publishUpdate = "absent")}
usesMemory(opts) == opts # NoOptions /\ opts.memory

\* positional arguments: a string or an object
Str(s) == [str |-> s]
Obj(o) == [obj |-> o]

\* no catch around the tool call: the error leaves the loop
Rethrown(msg, table) ==
  [toolResult |-> [error |-> msg], escaped |-> TRUE, db |-> table, acc |-> {}, sent |-> 0,
   call |-> <<>>]
\* agents.mjs:67-69: catch (toolError) { toolResult = { error: toolError.message } };
\* escaped says that the error leaves the try block instead
Caught(msg, table) ==
  [toolResult |-> [error |-> msg], escaped |-> FALSE, db |-> table, acc |-> {}, sent |-> 0,
   call |-> <<>>]

\* tool.handler(...args): parameter binding, then the handler body
CallHandler(tool, args, table, id) ==
  IF isMultiTenant(tool) /\ Len(args) < 2
  THEN \* (tenantId, {orderId, ...}) with one argument: destructuring undefined throws
       [Caught("TypeError: cannot destructure", table) EXCEPT !.call = <<[tool |-> tool, args |-> args]>>]
  ELSE LET tenantId == IF isMultiTenant(tool) THEN args[1].str ELSE NoTenant
           input == IF isMultiTenant(tool) THEN args[2].obj ELSE args[1].obj
           o == RunHandler(NewInvocation(tool, tenantId, input, id), table, {}, 0)
       IN [toolResult |-> [value |-> o.h.ret], escaped |-> FALSE, db |-> o.db, acc |-> o.acc,
           sent |-> o.sent, call |-> <<[tool |-> tool, args |-> args]>>]

\* the lookup of the tool outside the try block
ExecuteToolLookupOutside(toolUse, opts, table, id) ==
  IF toolUse.name \notin ToolNames
  THEN [Caught("Unknown tool", table) EXCEPT !.escaped = TRUE]
  ELSE IF opts = NoOptions
  THEN Caught("TypeError: options is undefined", table)
  ELSE IF opts.publishUpdate = "rejects"
  THEN Caught("publishUpdate rejected", table)
  ELSE IF opts.tenantId # NoTenant /\ isMultiTenant(toolUse.name)
  THEN CallHandler(toolUse.name, <<Str(opts.tenantId), Obj(toolUse.input)>>, table, id)
  ELSE CallHandler(toolUse.name, <<Obj(toolUse.input)>>, table, id)
\* agents.mjs:51-69, the try block around one tool call
ExecuteTool(toolUse, opts, table, id) ==
  IF toolUse.name \notin ToolNames
  THEN Caught("Unknown tool", table)
  ELSE IF opts = NoOptions
  THEN Caught("TypeError: options is undefined", table)
  ELSE IF opts.publishUpdate = "rejects"
  THEN Caught("publishUpdate rejected", table)
  ELSE IF opts.tenantId # NoTenant /\ isMultiTenant(toolUse.name)
  THEN CallHandler(toolUse.name, <<Str(opts.tenantId), Obj(toolUse.input)>>, table, id)
  ELSE CallHandler(toolUse.name, <<Obj(toolUse.input)>>, table, id)

\* agents.mjs:97-108
lastAssistantText(msgs) ==
  LET idx == {k \in 1..Len(msgs) : msgs[k].role = "assistant"}
  IN IF idx = {} THEN NoText
     ELSE LET last == CHOOSE k \in idx : \A j \in idx : j <= k
          IN JoinTexts(SelectSeq(msgs[last].content, isText))

fallbackResponse(final, msgs) ==
  IF final = NoText /\ Len(msgs) > 1 /\ lastAssistantText(msgs) # NoText
  THEN lastAssistantText(msgs)
  ELSE final

\* agents.mjs:116-137
RECURSIVE loadConversation(_)
loadConversation(events) ==
  IF events = <<>> THEN <<>>
  ELSE [k \in 1..Len(Head(events)) |->
          [role |-> IF Head(events)[k].role = "ASSISTANT" THEN "assistant" ELSE "user",
           content |-> <<[text |-> Head(events)[k].text]>>]]
       \o loadConversation(Tail(events))

\* agents.mjs:140-148: message.content[0] of a message without content is undefined
addToConversationThrows(msgs) == \E k \in 1..Len(msgs) : msgs[k].content = <<>>
keptInMemory(m) == ~ ("toolResult" \in DOMAIN m.content[1])
toMemory(m) ==
  [role |-> IF m.role = "assistant" THEN "ASSISTANT" ELSE "USER",
   text |-> IF "text" \in DOMAIN m.content[1] THEN m.content[1].text ELSE <<"undefined">>]
addToConversation(msgs) ==
  LET kept == SelectSeq(msgs, keptInMemory)
  IN [k \in 1..Len(kept) |-> toMemory(kept[k])]

(***************************************************************************)
(* What the model may answer                                               *)
(***************************************************************************)
UnknownToolCall == [name |-> "lookupWeather", input |-> [city |-> "x"]]
\* per tool, an input that takes effect and one that does not (schema
\* violation, missing record, status already set)
ModelInputs(tool) ==
  CASE tool = "allocateInventory" -> {i \in AllocInputs : i.productId = "p1" /\ i.quantity < 2}
    [] tool = "changeOrderStatus" -> {i \in StatusInputs : i.orderId = "o1" /\ i.newStatus # "cancelled"}
    [] tool = "duplicateOrder" -> DupInputs
    [] tool = "processRefund" -> RefundInputs
    [] OTHER -> EmailInputs
SingleCalls ==
  {UnknownToolCall} \cup
  UNION {{[name |-> tool, input |-> i] : i \in ModelInputs(tool)} : tool \in ToolNames}
Refund20 == [name |-> "processRefund",
             input |-> [orderId |-> "o1", refundAmount |-> 20, reason |-> "delivery_failed"]]
Ship == [name |-> "changeOrderStatus", input |-> [orderId |-> "o1", newStatus |-> "shipped"]]
\* turns of two calls: an unknown tool or a refund, then a refund or a status change
CallLists ==
  {<<c>> : c \in SingleCalls} \cup
  {<<a, b>> : a \in {UnknownToolCall, Refund20}, b \in {Refund20, Ship}}
TurnTexts == {NoText, <<"checking">>}
FinalTexts == {<<"done">>, <<"<thinking>", "plan", "</thinking>">>,
               <<"<thinking>", "plan", "</thinking>", " ", "done">>}

ToolUseId(n) == "tu" \o ToString(n)

\* the content array of a tool-calling response
TurnContent(text, callList, firstId) ==
  (IF text = NoText THEN <<>> ELSE <<TextItem(text)>>) \o
  [k \in 1..Len(callList) |->
     ToolUseItem(callList[k].name, callList[k].input, ToolUseId(firstId + k - 1))]

\* responses without tool calls: text, empty text, an empty array, a block of another kind
PlainContents ==
  {<<TextItem(t)>> : t \in FinalTexts} \cup {<<TextItem(NoText)>>, <<>>, <<[reasoningContent |-> "r"]>>}

\* the final answer of a late iteration
LateAnswer == <<TextItem(<<"done">>)>>

\* the calls of the latest tool-calling turn, <<>> if there was none
RequestedCalls(content) ==
  LET uses == SelectSeq(content, isToolUse)
  IN [k \in 1..Len(uses) |-> [name |-> uses[k].toolUse.name, input |-> uses[k].toolUse.input]]
lastCallList(msgs) ==
  LET idx == {k \in 1..Len(msgs) : msgs[k].role = "assistant"}
  IN IF idx = {} THEN <<>>
     ELSE RequestedCalls(msgs[CHOOSE k \in idx : \A j \in idx : j <= k].content)

(***************************************************************************)
(* SpecTools: two callers invoke the handlers directly and interleave at   *)
(* every store operation.                                                  *)
(***************************************************************************)
toolVars == <<inv, invCount, faults>>
converseVars == <<pc, options, memory, conversation, messages, iteration, finalResponse,
                  result, toolUseItems, message, calls, modelCalls, request, nextToolUseId>>
taskVars == <<cancelAt>>
deliveryVars == <<dpc, dreq, dres, clock, bus, tpc, tevent, tres>>
agentVars == <<agent, registry, ginv>>
submitVars == <<spc, sinput, attempt, slog, lastError, sres>>
cleanupVars == <<cpc, ctenant, ctable, cscans>>
envVars == <<taskVars, deliveryVars, agentVars, submitVars, cleanupVars>>
vars == <<db, nextId, lastAccess, outbox, toolVars, converseVars, envVars>>

EmptyToolMessage == [role |-> "user", content |-> <<>>]

\* the values of the Lambda handlers' variables before anything is assigned
NoRequest == [none |-> TRUE]
NoResponse == [none |-> TRUE]
NoEvent == [none |-> TRUE]
NoAgent == [none |-> TRUE]
NoError == [none |-> TRUE]
IdleInvocation == [gpc |-> "idle"]

InitStore ==
  /\ db = SeedTable
  /\ nextId = [p \in Procs |-> 0]
  /\ lastAccess = {}
  /\ outbox = 0
  /\ inv = [p \in Procs |-> Idle]
  /\ invCount = 0
  /\ faults = 0
  /\ memory = <<>>
  /\ conversation = <<>>
  /\ messages = <<>>
  /\ iteration = 0
  /\ finalResponse = NoText
  /\ result = NoText
  /\ toolUseItems = <<>>
  /\ message = EmptyToolMessage
  /\ calls = <<>>
  /\ modelCalls = 0
  /\ request = <<>>
  /\ nextToolUseId = 1
  /\ cancelAt = -1
  /\ dpc = "idle"
  /\ dreq = NoRequest
  /\ dres = NoResponse
  /\ clock = 0
  /\ bus = <<>>
  /\ tpc = "idle"
  /\ tevent = NoEvent
  /\ tres = NoResponse
  /\ agent = NoAgent
  /\ registry = <<>>
  /\ ginv = [p \in Procs |-> IdleInvocation]
  /\ spc = "idle"
  /\ sinput = NoRequest
  /\ attempt = 0
  /\ slog = <<>>
  /\ lastError = NoError
  /\ sres = NoResponse
  /\ cpc = "idle"
  /\ ctenant = NoTenant
  /\ ctable = <<>>
  /\ cscans = 0

\* no converse run: only the direct callers act
InitTools ==
  /\ InitStore
  /\ pc = "off"
  /\ options = NoOptions

\* a caller starts handler(tenantId, input)
Invoke(p) ==
  /\ inv[p] = Idle
  /\ invCount < MaxInvocations
  /\ \E tool \in MultiTenantTools, tenantId \in Tenants \cup {NoTenant} :
       \E input \in DirectInputs(tool) :
         \* without a tenant id a handler returns before it looks at its input
         /\ tenantId = NoTenant => input = CHOOSE i \in DirectInputs(tool) : TRUE
         /\ inv' = [inv EXCEPT ![p] = NewInvocation(tool, tenantId, input, Uuid(p, nextId[p]))]
  /\ nextId' = [nextId EXCEPT ![p] = @ + 1]
  /\ invCount' = invCount + 1
  /\ lastAccess' = {}
  /\ UNCHANGED <<db, outbox, faults, converseVars, envVars>>

\* the handler runs up to and including its next store operation
ToolStep(p) ==
  /\ inv[p].pcH \notin {"idle", "done"}
  /\ \E fail \in BOOLEAN :
       LET o == HandlerStep(inv[p], db, fail) IN
       /\ fail => /\ faults < MaxFaults
                  /\ o # HandlerStep(inv[p], db, FALSE)
       /\ inv' = [inv EXCEPT ![p] = o.h]
       /\ db' = o.db
       /\ lastAccess' = o.acc
       /\ outbox' = outbox + o.sent
       /\ faults' = faults + (IF fail THEN 1 ELSE 0)
  /\ UNCHANGED <<nextId, invCount, converseVars, envVars>>

\* the handler's promise resolves with its return value
ToolReturn(p) ==
  /\ inv[p].pcH = "done"
  /\ inv' = [inv EXCEPT ![p] = Idle]
  /\ lastAccess' = {}
  /\ UNCHANGED <<db, nextId, outbox, invCount, faults, converseVars, envVars>>

NextTools == \E p \in Procs : Invoke(p) \/ ToolStep(p) \/ ToolReturn(p)

SpecTools == InitTools /\ [][NextTools]_vars

\* a caller starts a handler with an input that conforms to the tool's schema
\* (the input schema the model is given)
InvokeValid(p) ==
  /\ Invoke(p)
  /\ SchemaValid(inv'[p].tool, inv'[p].input)

\* one caller: the handlers are invoked one after the other, each awaited
NextSequential == InvokeValid(1) \/ ToolStep(1) \/ ToolReturn(1)

SpecSequential == InitTools /\ [][NextSequential]_vars

(***************************************************************************)
(* Spec: one run of converse(model, systemPrompt, message, tools, options) *)
(* with the five tools registered.  The stores answer every request; the   *)
(* model and the status publisher may fail.                                *)
(***************************************************************************)
Init ==
  /\ InitStore
  /\ pc = "start"
  /\ options \in OptionChoices

\* agents.mjs:10-16
Start ==
  /\ pc = "start"
  /\ conversation' = IF usesMemory(options) THEN loadConversation(memory) ELSE <<>>
  /\ messages' = <<[role |-> "user", content |-> <<TextItem(<<"task">>)>>]>>
  /\ pc' = "model"
  /\ UNCHANGED <<db, nextId, lastAccess, outbox, toolVars, envVars, options, memory, iteration,
                 finalResponse, result, toolUseItems, message, calls, modelCalls,
                 request, nextToolUseId>>

\* agents.mjs:18-29: the loop test, iteration++, bedrock.send
SendCommand ==
  /\ pc = "model"
  /\ KeepLooping(iteration)
  /\ iteration' = iteration + 1
  /\ modelCalls' = modelCalls + 1
  /\ request' = conversation \o messages

\* the response stored over the last entry of the history
ReceiveOverwriting(content) ==
  LET toolUses == SelectSeq(content, isToolUse)
      textItems == SelectSeq(content, isText)
  IN /\ messages' = [messages EXCEPT ![Len(messages)] = [role |-> "assistant", content |-> content]]
     /\ IF toolUses # <<>>
        THEN /\ pc' = "tools"
             /\ toolUseItems' = toolUses
             /\ message' = EmptyToolMessage
             /\ finalResponse' = finalResponse
        ELSE /\ pc' = "finish"
             /\ finalResponse' = IF textItems # <<>>
                                 THEN JoinTexts(textItems)
                                 ELSE <<"Received unexpected response type from model">>
             /\ UNCHANGED <<toolUseItems, message>>

\* agents.mjs:36-86: a response with content
Receive(content) ==
  LET toolUses == SelectSeq(content, isToolUse)
      textItems == SelectSeq(content, isText)
  IN /\ messages' = Append(messages, [role |-> "assistant", content |-> content])
     /\ IF toolUses # <<>>
        THEN /\ pc' = "tools"
             /\ toolUseItems' = toolUses
             /\ message' = EmptyToolMessage
             /\ finalResponse' = finalResponse
        ELSE /\ pc' = "finish"
             /\ finalResponse' = IF textItems # <<>>
                                 THEN JoinTexts(textItems)
                                 ELSE <<"Received unexpected response type from model">>
             /\ UNCHANGED <<toolUseItems, message>>

\* the failure of bedrock.send swallowed: the loop goes on to its next iteration
ModelFailsSwallowed ==
  /\ SendCommand
  /\ pc' = "model"
  /\ UNCHANGED <<db, nextId, lastAccess, outbox, toolVars, envVars, options, memory, conversation,
                 messages, finalResponse, result, toolUseItems, message, calls,
                 nextToolUseId>>

\* bedrock.send rejects: agents.mjs:87-90
ModelFails ==
  /\ SendCommand
  /\ pc' = "thrown"
  /\ result' = <<"Failed to process message">>
  /\ UNCHANGED <<db, nextId, lastAccess, outbox, toolVars, envVars, options, memory, conversation,
                 messages, finalResponse, toolUseItems, message, calls,
                 nextToolUseId>>

\* a response without output.message.content: agents.mjs:31-34
ModelNoContent ==
  /\ SendCommand
  /\ iteration <= MaxVaried
  /\ pc' = "finish"
  /\ UNCHANGED <<db, nextId, lastAccess, outbox, toolVars, envVars, options, memory, conversation,
                 messages, finalResponse, result, toolUseItems, message, calls,
                 nextToolUseId>>

\* a response without tool calls
ModelAnswers ==
  /\ SendCommand
  /\ \E content \in (IF iteration <= MaxVaried THEN PlainContents ELSE {LateAnswer}) :
       Receive(content)
  /\ UNCHANGED <<db, nextId, lastAccess, outbox, toolVars, envVars, options, memory, conversation,
                 result, calls, nextToolUseId>>

\* a response with tool calls, chosen freely
ModelRequestsTools ==
  /\ SendCommand
  /\ iteration < MaxVaried
  /\ \E text \in TurnTexts, callList \in CallLists :
       /\ Receive(TurnContent(text, callList, nextToolUseId))
       /\ nextToolUseId' = nextToolUseId + Len(callList)
  /\ UNCHANGED <<db, nextId, lastAccess, outbox, toolVars, envVars, options, memory, conversation,
                 result, calls>>

\* a response that repeats the previous turn: its text and its calls, under new
\* ids; the last response the loop admits may come without the text
ModelRepeatsTools ==
  /\ SendCommand
  /\ lastCallList(messages) # <<>>
  /\ \E text \in {lastAssistantText(messages)} \cup
                  (IF iteration = MAX_ITERATIONS - 1 THEN {NoText} ELSE {}) :
       Receive(TurnContent(text, lastCallList(messages), nextToolUseId))
  /\ nextToolUseId' = nextToolUseId + Len(lastCallList(messages))
  /\ UNCHANGED <<db, nextId, lastAccess, outbox, toolVars, envVars, options, memory, conversation,
                 result, calls>>

\* agents.mjs:45-78: one pass of the for loop; after the last one the message is pushed
ToolCall ==
  /\ pc = "tools"
  /\ LET toolUse == Head(toolUseItems).toolUse
         o == ExecuteTool(toolUse, options, db, Uuid(1, nextId[1]))
         built == [message EXCEPT
                     !.content = pushResult(@, ToolResultItem(toolUse.toolUseId, o.toolResult))]
     IN /\ db' = o.db
        /\ lastAccess' = o.acc
        /\ outbox' = outbox + o.sent
        /\ nextId' = [nextId EXCEPT ![1] = @ + Len(o.call)]
        /\ calls' = calls \o [k \in 1..Len(o.call) |->
                                [toolUseId |-> toolUse.toolUseId, tool |-> o.call[k].tool,
                                 args |-> o.call[k].args]]
        /\ message' = built
        /\ toolUseItems' = Tail(toolUseItems)
        /\ IF o.escaped  \* an error that leaves the inner try: agents.mjs:87-90
           THEN /\ pc' = "thrown"
                /\ result' = <<"Failed to process message">>
                /\ messages' = messages
           ELSE /\ result' = result
                /\ IF Tail(toolUseItems) # <<>>
                   THEN /\ pc' = "tools"
                        /\ messages' = messages
                   ELSE /\ messages' = Append(messages, built)
                        /\ pc' = "model"
  /\ UNCHANGED <<toolVars, envVars, options, memory, conversation, iteration, finalResponse,
                 modelCalls, request, nextToolUseId>>

\* agents.mjs:18: the loop test fails
LoopExit ==
  /\ pc = "model"
  /\ ~ KeepLooping(iteration)
  /\ pc' = "finish"
  /\ UNCHANGED <<db, nextId, lastAccess, outbox, toolVars, envVars, options, memory, conversation,
                 messages, iteration, finalResponse, result, toolUseItems, message, calls,
                 modelCalls, request, nextToolUseId>>

\* agents.mjs:93-113
Finish ==
  /\ pc = "finish"
  /\ finalResponse' = fallbackResponse(finalResponse, messages)
  /\ IF usesMemory(options) /\ addToConversationThrows(messages)
     THEN /\ pc' = "thrown"
          /\ result' = <<"TypeError: message.content[0] is undefined">>
          /\ memory' = memory
     ELSE /\ pc' = "returned"
          /\ result' = IF sanitizeResponse(finalResponse', FALSE) # NoText
                       THEN sanitizeResponse(finalResponse', FALSE)
                       ELSE <<"No response generated">>
          /\ memory' = IF usesMemory(options)
                       THEN Append(memory, addToConversation(messages))
                       ELSE memory
  /\ UNCHANGED <<db, nextId, lastAccess, outbox, toolVars, envVars, options, conversation, messages,
                 iteration, toolUseItems, message, calls, modelCalls, request,
                 nextToolUseId>>

Next ==
  \/ Start
  \/ ModelFails
  \/ ModelNoContent
  \/ ModelAnswers
  \/ ModelRequestsTools
  \/ ModelRepeatsTools
  \/ ToolCall
  \/ LoopExit
  \/ Finish

Spec == Init /\ [][Next]_vars

(***************************************************************************)
(* SpecCancel: a run of converse during which the task it serves may be    *)
(* cancelled.  converse receives the task's id at most (options.taskId)    *)
(* and reads nothing of the task.                                          *)
(***************************************************************************)
\* the task is cancelled from outside while the loop is running
Cancel ==
  /\ pc \in {"model", "tools"}
  /\ cancelAt = -1
  /\ cancelAt' = iteration
  /\ UNCHANGED <<db, nextId, lastAccess, outbox, toolVars, converseVars, deliveryVars, agentVars,
                 submitVars, cleanupVars>>

NextCancel == Next \/ Cancel

SpecCancel == Init /\ [][NextCancel]_vars

(***************************************************************************)
(* SpecAgent: the handler of an agent Lambda (payment.mjs, order.mjs,      *)
(* warehouse.mjs) invoked several times in one process; invocations        *)
(* interleave at their awaits.                                             *)
(***************************************************************************)
notAgentVars == <<db, nextId, lastAccess, outbox, toolVars, converseVars, taskVars, deliveryVars,
                  submitVars, cleanupVars>>
BaseUrls == {"https://a", "https://b"}
AgentCard(baseUrl) == [name |-> "Payment Management Agent", url |-> baseUrl]

\* payment.mjs:51-52, getAgent up to its await: if (!agent) createAgent(agentParams)
GetAgent(p) ==
  /\ ginv[p].gpc \in {"idle", "responded"}
  /\ \E baseUrl \in BaseUrls :
       ginv' = [ginv EXCEPT ![p] =
                  IF agent = NoAgent
                  THEN [gpc |-> "creating", baseUrl |-> baseUrl]
                  ELSE [gpc |-> "got", seen |-> agent]]
  /\ UNCHANGED <<agent, registry, notAgentVars>>

\* payment.mjs:44: createAgent resolves; with registerAgent: true it has registered the card
CreateResolves(p) ==
  /\ ginv[p].gpc = "creating"
  /\ LET created == [card |-> AgentCard(ginv[p].baseUrl), instance |-> Len(registry) + 1]
     IN /\ registry' = Append(registry, created.card)
        /\ agent' = created
        /\ ginv' = [ginv EXCEPT ![p] = [gpc |-> "got", seen |-> created]]
  /\ UNCHANGED notAgentVars

\* payment.mjs:44, 63-69: createAgent rejects, the handler answers 500
CreateRejects(p) ==
  /\ ginv[p].gpc = "creating"
  /\ ginv' = [ginv EXCEPT ![p] = [gpc |-> "responded", statusCode |-> 500]]
  /\ UNCHANGED <<agent, registry, notAgentVars>>

\* payment.mjs:53-61: agentInstance.fetch(request) and the response
Fetch(p) ==
  /\ ginv[p].gpc = "got"
  /\ \E status \in {200, 500} :  \* the agent's own response, or fetch rejects
       ginv' = [ginv EXCEPT ![p] = [gpc |-> "responded", statusCode |-> status]]
  /\ UNCHANGED <<agent, registry, notAgentVars>>

NextAgent == \E p \in Procs : GetAgent(p) \/ CreateResolves(p) \/ CreateRejects(p) \/ Fetch(p)

SpecAgent == InitTools /\ [][NextAgent]_vars

(***************************************************************************)
(* SpecDelivery: the delivery status handler (delivery/update-status.mjs)  *)
(* and the triage handler (agents/triage.mjs) that EventBridge invokes     *)
(* with the events the former publishes.  A missing (undefined) value is   *)
(* a field that a record does not have.                                    *)
(***************************************************************************)
MaxRequests == 2   \* delivery status requests per behaviour

notDeliveryVars == <<lastAccess, outbox, toolVars, converseVars, taskVars, agentVars,
                     submitVars, cleanupVars>>

\* the bodies of test-delivery-status.mjs (TestBody, OrderOnlyBody), the body
\* the handler reads (DriverBody), one that is both, and one without reason
TestBody == [orderId |-> "ORD-1", exceptionType |-> "Customer Not Home", notes |-> "n",
             contextId |-> "ctx_test"]
OrderOnlyBody == [orderId |-> "ORD-1", contextId |-> "ctx_test"]
DriverBody == [orderId |-> "ORD-1", status |-> "failed", location |-> "loc",
               driverId |-> "drv", reason |-> "Customer Not Home"]
FullBody == [orderId |-> "ORD-1", exceptionType |-> "Customer Not Home", notes |-> "n",
             status |-> "failed", location |-> "loc", driverId |-> "drv",
             reason |-> "Customer Not Home"]
NoReasonBody == [orderId |-> "ORD-1", exceptionType |-> "Customer Not Home", notes |-> "n",
                 status |-> "delivered", location |-> "loc", driverId |-> "drv"]
NotJson == [unparseable |-> TRUE]
Bodies == {TestBody, OrderOnlyBody, DriverBody, FullBody, NoReasonBody, NotJson}
PathParameters == {[null |-> TRUE], [id |-> "DEL-1"], [deliveryId |-> "DEL-1"]}
ContextHeaders == {[absent |-> TRUE], [value |-> "ctx-h"]}
DeliveryRequests == [pathParameters : PathParameters, body : Bodies, header : ContextHeaders]

\* object spread and JSON.stringify keep the defined fields only
Defined(fields, obj) == {f \in fields : f \in DOMAIN obj}
Pick(fields, obj) == [f \in Defined(fields, obj) |-> obj[f]]

\* update-status.mjs:14-15: destructuring null and JSON.parse of a non-JSON body throw
RequestThrows(req) == req.pathParameters = [null |-> TRUE] \/ req.body = NotJson

\* update-status.mjs:19-26
StatusRecord(req, timestamp) ==
  [timestamp |-> timestamp] @@
  Pick({"deliveryId"}, req.pathParameters) @@
  Pick({"status", "location", "driverId", "reason"}, req.body)
StatusFields == {"deliveryId", "status", "timestamp", "location", "driverId", "reason"}

Response500 == [statusCode |-> 500, body |-> [success |-> FALSE, error |-> "INTERNAL_ERROR"]]

\* update-status.mjs:12-26: the handler up to its first await
StartDelivery ==
  /\ dpc \in {"idle", "done"}
  /\ clock < MaxRequests
  /\ clock' = clock + 1
  /\ \E req \in DeliveryRequests :
       IF RequestThrows(req)
       THEN /\ dreq' = [event |-> req]
            /\ dres' = Response500
            /\ dpc' = "done"
            /\ nextId' = nextId
       ELSE /\ dreq' = [event |-> req,
                        contextId |-> IF "value" \in DOMAIN req.header
                                      THEN req.header.value ELSE Uuid(1, nextId[1]),
                        statusRecord |-> StatusRecord(req, ToString(clock))]
            /\ nextId' = IF "value" \in DOMAIN req.header
                         THEN nextId ELSE [nextId EXCEPT ![1] = @ + 1]
            /\ dres' = NoResponse
            /\ dpc' = "store"
  /\ UNCHANGED <<db, bus, tpc, tevent, tres, notDeliveryVars>>

\* the handler's catch: update-status.mjs:43-52
DeliveryFails ==
  /\ dres' = Response500
  /\ dpc' = "done"

\* update-status.mjs:55-69: marshall (no removeUndefinedValues) throws on an
\* undefined attribute; otherwise the PutItem is sent and succeeds or throws
StoreDeliveryStatus ==
  /\ dpc = "store"
  /\ LET key == <<<<"demo-tenant", "#", "delivery", "#",
                    IF "deliveryId" \in DOMAIN dreq.statusRecord
                    THEN dreq.statusRecord.deliveryId ELSE "undefined">>,
                  <<"status", "#", dreq.statusRecord.timestamp>>>>
     IN \/ /\ DOMAIN dreq.statusRecord = StatusFields
           /\ db' = PutItem(db, key, dreq.statusRecord @@ [tenantId |-> "demo-tenant"])
           /\ dpc' = "publish"
           /\ dres' = dres
        \/ /\ DeliveryFails
           /\ db' = db
  /\ UNCHANGED <<nextId, dreq, clock, bus, tpc, tevent, tres, notDeliveryVars>>

\* update-status.mjs:71-93: PutEvents succeeds, reports a failed entry, or throws
PublishDeliveryEvent ==
  /\ dpc = "publish"
  /\ \/ /\ bus' = Append(bus, [deliveryId |-> dreq.statusRecord.deliveryId,
                                tenantId |-> "demo-tenant",
                                contextId |-> dreq.contextId,
                                status |-> dreq.statusRecord])
        /\ dpc' = "token"
        /\ dres' = dres
     \/ /\ DeliveryFails
        /\ bus' = bus
  /\ UNCHANGED <<db, nextId, dreq, clock, tpc, tevent, tres, notDeliveryVars>>

\* update-status.mjs:95-107 and 31-41: generateDisposableToken resolves with a
\* token, resolves with an error response (no authToken), or throws
GenerateMomentoToken ==
  /\ dpc = "token"
  /\ \/ \E tokenResponse \in {[authToken |-> "tok"], [error |-> "LIMIT_EXCEEDED"]} :
          /\ dres' = [statusCode |-> 202,
                      body |-> Pick({"orderId"}, dreq.event.body) @@
                               [accepted |-> TRUE,
                                message |-> "Delivery status update accepted for processing",
                                notifications |-> Pick({"authToken"}, tokenResponse) @@
                                                  [contextId |-> dreq.contextId]]]
          /\ dpc' = "done"
     \/ DeliveryFails
  /\ UNCHANGED <<db, nextId, dreq, clock, bus, tpc, tevent, tres, notDeliveryVars>>

\* what a handler that ends without a return statement resolves to
ReturnedUndefined == [undefined |-> TRUE]

\* the events the triage Lambda is invoked with: an event of the bus
\* (EventBridge delivers at least once), or a direct invocation without detail
TriageEvents == {[detail |-> bus[i]] : i \in 1..Len(bus)} \cup {[source |-> "manual"]}

\* the summaries agent.sendMessage resolves with
Summaries == {"resolved", "requires follow-up"}

\* triage.mjs:4-98: the handler up to agent.sendMessage; reading
\* detail.deliveryId of an event without detail throws into the catch
StartTriage ==
  /\ tpc \in {"idle", "done"}
  /\ \E event \in TriageEvents :
       /\ tevent' = event
       /\ IF "detail" \in DOMAIN event
          THEN tpc' = "sending" /\ tres' = NoResponse
          ELSE tpc' = "done" /\ tres' = ReturnedUndefined
  /\ UNCHANGED <<db, nextId, dpc, dreq, dres, clock, bus, notDeliveryVars>>

\* triage.mjs:98-112: sendMessage resolves and the handler returns 200
TriageResolves ==
  /\ tpc = "sending"
  /\ \E response \in Summaries :
       tres' = [statusCode |-> 200, body |-> [success |-> TRUE, message |-> response]]
  /\ tpc' = "done"
  /\ UNCHANGED <<db, nextId, dpc, dreq, dres, clock, bus, tevent, notDeliveryVars>>

\* triage.mjs:113-119: sendMessage rejects; the catch logs and returns nothing
TriageRejects ==
  /\ tpc = "sending"
  /\ tres' = ReturnedUndefined
  /\ tpc' = "done"
  /\ UNCHANGED <<db, nextId, dpc, dreq, dres, clock, bus, tevent, notDeliveryVars>>

NextDelivery ==
  \/ StartDelivery
  \/ StoreDeliveryStatus
  \/ PublishDeliveryEvent
  \/ GenerateMomentoToken
  \/ StartTriage
  \/ TriageResolves
  \/ TriageRejects

SpecDelivery == InitTools /\ [][NextDelivery]_vars

(***************************************************************************)
(* SpecSubmit: TriageService.submitException of the web client.  An order  *)
(* id is a tuple of characters; of the notes only the length is read.      *)
(***************************************************************************)
MAX_RETRIES == 2

notSubmitVars == <<db, nextId, lastAccess, outbox, toolVars, converseVars, taskVars, deliveryVars,
                   agentVars, cleanupVars>>

\* the arguments: order ids with and without the format of part_015:142, notes
\* around the limits of lines 146-152
SubmitInputs == [orderId : {<<>>, <<"B", "4", "5", "6">>, <<"b", "4", "5", "6", "7">>,
                            <<"B", "4", "5">>, <<"O", "R", "D", "4">>},
                 notesLength : {0, 4, 5, 500, 501}]

\* /^[A-Za-z][0-9]{3,6}$/.test(orderId)
OrderIdFormat(orderId) ==
  /\ Len(orderId) \in 4..7
  /\ orderId[1] \in {"B", "b", "O", "R", "D"}
  /\ \A i \in 2..Len(orderId) : orderId[i] \in {"4", "5", "6", "7"}

\* part_015:142-152: the message of the validation error, "" when there is none
ValidationError(input) ==
  IF input.orderId = <<>> \/ ~OrderIdFormat(input.orderId) THEN "Invalid order ID format"
  ELSE IF input.notesLength < 5 THEN "Driver notes must be at least 5 characters"
  ELSE IF input.notesLength > 500 THEN "Driver notes must be under 500 characters"
  ELSE ""

\* what makeRequest resolves with, and the messages of the errors it throws
\* (a response that is not ok, the timeout's abort, a network error)
SubmitResponses == {[accepted |-> TRUE, notifications |-> [authToken |-> "tok", contextId |-> "ctx"]],
                    [accepted |-> TRUE, notifications |-> [contextId |-> "ctx"]]}
SubmitErrors == {"HTTP 500", "AbortError", "Failed to fetch"}

\* the loop guard with too many attempts
KeepTryingInclusive(a) == a <= MAX_RETRIES + 1

\* the loop guard of part_015:156
KeepTrying(a) == a <= MAX_RETRIES

\* the loop is entered with counter a: the next attempt, or throw lastError
LoopTest(a, err) ==
  /\ attempt' = a
  /\ IF KeepTrying(a)
     THEN spc' = "request" /\ sres' = sres
     ELSE spc' = "thrown" /\ sres' = [error |-> err]

\* part_015:127-156: the call, up to the first makeRequest
Submit ==
  /\ spc = "idle"
  /\ \E input \in SubmitInputs :
       /\ sinput' = input
       /\ IF ValidationError(input) # ""
          THEN /\ spc' = "thrown"
               /\ sres' = [error |-> [message |-> ValidationError(input), of |-> 0]]
               /\ attempt' = attempt
          ELSE LoopTest(0, lastError)
  /\ UNCHANGED <<slog, lastError, notSubmitVars>>

\* part_015:157-159: makeRequest resolves and its response is returned
RequestSucceeds ==
  /\ spc = "request"
  /\ \E response \in SubmitResponses :
       /\ slog' = Append(slog, [ok |-> response])
       /\ sres' = [value |-> response]
  /\ spc' = "returned"
  /\ UNCHANGED <<sinput, attempt, lastError, notSubmitVars>>

\* part_015:160-167: makeRequest throws; the error is kept and, unless this
\* was the last attempt, the delay is awaited
RequestFails ==
  /\ spc = "request"
  /\ \E msg \in SubmitErrors :
       LET error == [message |-> msg, of |-> Len(slog) + 1] IN
       /\ slog' = Append(slog, [failed |-> error])
       /\ lastError' = error
       /\ IF attempt < MAX_RETRIES
          THEN spc' = "delay" /\ attempt' = attempt /\ sres' = sres
          ELSE LoopTest(attempt + 1, error)
  /\ UNCHANGED <<sinput, notSubmitVars>>

\* part_015:165, 156: the delay is over, attempt++ and the guard is tested
DelayElapses ==
  /\ spc = "delay"
  /\ LoopTest(attempt + 1, lastError)
  /\ UNCHANGED <<sinput, slog, lastError, notSubmitVars>>

NextSubmit == Submit \/ RequestSucceeds \/ RequestFails \/ DelayElapses

SpecSubmit == InitTools /\ [][NextSubmit]_vars

(***************************************************************************)
(* SpecCleanup: cleanupExistingData of the demo reset handler.  The table  *)
(* is the sequence of its items in the order Scan walks them; of an item   *)
(* only the tenant its pk begins with matters.                             *)
(***************************************************************************)
PageSize == 2   \* items one Scan call reads before it stops (the 1 MB limit)
MaxTable == 4   \* items in the table when cleanupExistingData is called
MaxScans == 3   \* Scan calls per run

notCleanupVars == <<db, nextId, lastAccess, outbox, toolVars, converseVars, taskVars, deliveryVars,
                    agentVars, submitVars>>

\* update-status.mjs:159-164: Scan is sent without ExclusiveStartKey, so it reads the
\* first page of the table; the filter is applied to the items read, and
\* LastEvaluatedKey is set when items are left beyond the page
ScanCommand(table, tenantId) ==
  LET read == IF Len(table) > PageSize THEN PageSize ELSE Len(table)
  IN [Items |-> {i \in 1..read : table[i] = tenantId},
      LastEvaluatedKey |-> Len(table) > PageSize]

\* update-status.mjs:166-177: every item found is deleted, in chunks of 25
BatchWriteItem(table, items) ==
  LET kept(i) == i \notin items
      F[i \in 0..Len(table)] ==
        IF i = 0 THEN <<>> ELSE IF kept(i) THEN Append(F[i - 1], table[i]) ELSE F[i - 1]
  IN F[Len(table)]

\* cleanupExistingData(tenantId) is called on some table
StartCleanup ==
  /\ cpc = "idle"
  /\ \E tenantId \in Tenants, n \in 0..MaxTable :
       \E table \in [1..n -> Tenants] :
         /\ ctenant' = tenantId
         /\ ctable' = table
  /\ cpc' = "loop"
  /\ UNCHANGED <<cscans, notCleanupVars>>

\* update-status.mjs:158-180: one round of the do-while loop
CleanupRound ==
  /\ cpc = "loop"
  /\ cscans < MaxScans
  /\ LET scanResult == ScanCommand(ctable, ctenant) IN
       /\ ctable' = BatchWriteItem(ctable, scanResult.Items)
       /\ cpc' = IF scanResult.LastEvaluatedKey THEN "loop" ELSE "returned"
  /\ cscans' = cscans + 1
  /\ UNCHANGED <<ctenant, notCleanupVars>>

\* a call of ddb.send rejects and cleanupExistingData throws
CleanupFails ==
  /\ cpc = "loop"
  /\ cpc' = "thrown"
  /\ UNCHANGED <<ctenant, ctable, cscans, notCleanupVars>>

NextCleanup == StartCleanup \/ CleanupRound \/ CleanupFails

SpecCleanup == InitTools /\ [][NextCleanup]_vars

(***************************************************************************)
(* Properties of converse                                                  *)
(***************************************************************************)
ToolUsesOf(m) == SelectSeq(m.content, isToolUse)
IsToolTurn(m) == m.role = "assistant" /\ ToolUsesOf(m) # <<>>
UseIds(m) == [k \in 1..Len(ToolUsesOf(m)) |-> ToolUsesOf(m)[k].toolUse.toolUseId]
IsResultMessage(m) == m.role = "user" /\ \A k \in 1..Len(m.content) : isToolResult(m.content[k])
ResultIds(m) == [k \in 1..Len(m.content) |-> m.content[k].toolResult.toolUseId]
ToolTurns(h) == {k \in 1..Len(h) : IsToolTurn(h[k])}
Terminated == pc \in {"returned", "thrown"}

\* every response of the model so far requested tool calls
OnlyToolCalls == modelCalls >= 1 /\ modelCalls = Cardinality(ToolTurns(messages))

\* the texts converse may fall back to: the text of an assistant message, sanitized
AssistantTexts ==
  {sanitizeResponse(JoinTexts(SelectSeq(messages[k].content, isText)), FALSE) :
     k \in {j \in 1..Len(messages) : messages[j].role = "assistant"}}

C1_Safety ==
  /\ modelCalls <= 10
  /\ OnlyToolCalls =>
       /\ pc # "thrown"
       /\ pc \in {"finish", "returned"} => modelCalls = 10
       /\ pc = "returned" =>
            /\ result # NoText
            /\ result \in AssistantTexts \cup {<<"No response generated">>}

\* a variant of the run: the steps left in the widest case
WidestTurn == CHOOSE n \in {Len(c) : c \in CallLists} : \A c \in CallLists : Len(c) <= n
Rank ==
  CASE pc = "start" -> (MAX_ITERATIONS + 1) * (WidestTurn + 2) + 3
    [] pc = "model" -> (MAX_ITERATIONS - iteration) * (WidestTurn + 2) + 3
    [] pc = "tools" -> (MAX_ITERATIONS - iteration) * (WidestTurn + 2) + 3 + Len(toolUseItems)
    [] pc = "finish" -> 2
    [] OTHER -> 1

\* C1: with a model that requests tool calls in every response, converse makes
\* at most 10 model calls, never throws, and returns a fallback string (the
\* text of an assistant message or 'No response generated'); it terminates:
\* every step of a run lowers a variant that is never below 1, and a run that
\* is within a turn has a tool call left to process.
C1_BoundedLoop ==
  /\ [] (C1_Safety /\ Rank >= 1 /\ (pc = "tools" => toolUseItems # <<>>))
  /\ [][Rank' < Rank]_vars

\* the loop ran to its bound on tool calls alone and returned the text of the last turn
C1_Witness == pc = "returned" /\ OnlyToolCalls /\ modelCalls = 10 /\ result = <<"checking">>

\* every tool-calling turn of history h is followed by one message that holds
\* one result per call, with the ids of the calls in the order of the calls
Answered(h) ==
  \A k \in ToolTurns(h) :
    /\ k < Len(h)
    /\ IsResultMessage(h[k + 1])
    /\ ResultIds(h[k + 1]) = UseIds(h[k])

RECURSIVE Flatten(_)
Flatten(seqs) == IF seqs = <<>> THEN <<>> ELSE Head(seqs) \o Flatten(Tail(seqs))
\* the toolUseIds in the order the model requested them
RequestedIds == Flatten([k \in 1..Len(messages) |->
                           IF IsToolTurn(messages[k]) THEN UseIds(messages[k]) ELSE <<>>])
\* the tool results produced so far, in order
ResultsSoFar ==
  Flatten([k \in 1..Len(messages) |->
             IF IsResultMessage(messages[k]) /\ k > 1 THEN messages[k].content ELSE <<>>])
  \o (IF pc = "tools" THEN message.content ELSE <<>>)
\* least position of an id in a sequence of ids, 0 if it does not occur
PositionIn(ids, id) ==
  LET hits == {k \in 1..Len(ids) : ids[k] = id}
  IN IF hits = {} THEN 0 ELSE CHOOSE k \in hits : \A j \in hits : k <= j

\* C2: every tool call of a turn is processed before the model is called again:
\* the history handed to the model holds, right after each tool-calling turn,
\* one result per call with the matching toolUseId in the order requested; the
\* handlers run in that order, at most once per call, and every result that is
\* not an error comes from a handler invocation.
C2_AllToolCallsAnswered ==
  LET requested == RequestedIds
      results == ResultsSoFar
      called == [k \in 1..Len(calls) |-> PositionIn(requested, calls[k].toolUseId)]
      calledIds == {calls[k].toolUseId : k \in 1..Len(calls)}
  IN /\ Answered(request)
     /\ pc # "tools" => Answered(messages)
     /\ Len(results) <= Len(requested)
     /\ [k \in 1..Len(results) |-> results[k].toolResult.toolUseId]
          = SubSeq(requested, 1, Len(results))
     /\ pc = "tools" => Len(results) + Len(toolUseItems) = Len(requested)
     /\ \A k \in 1..Len(results) :
          "value" \in DOMAIN results[k].toolResult.content[1].text
             => results[k].toolResult.toolUseId \in calledIds
     /\ \A k \in 1..Len(called) :
          /\ called[k] >= 1
          /\ k > 1 => called[k - 1] < called[k]

\* a turn of two calls was answered by two handler results and the model was called again
C2_Witness ==
  /\ modelCalls >= 2
  /\ \E k \in ToolTurns(request) :
       /\ Len(UseIds(request[k])) = 2
       /\ \A j \in 1..2 : "value" \in DOMAIN request[k + 1].content[j].toolResult.content[1].text

\* C3: the first argument of every multi-tenant handler invocation is the
\* caller-supplied options.tenantId, whatever the options are.
C3_TenantFromCaller ==
  \A k \in 1..Len(calls) :
    isMultiTenant(calls[k].tool) =>
      /\ options # NoOptions
      /\ calls[k].args[1] = Str(options.tenantId)

(***************************************************************************)
(* Properties of the tool handlers under interleaving                      *)
(***************************************************************************)
\* the callers whose invocation took the step
Acting == {p \in Procs : inv'[p] # inv[p]}
\* the records a step created or changed
Written == {k \in DOMAIN db' : k \notin DOMAIN db \/ db'[k] # db[k]}
OrderKey(t, id) == <<Pk(t, "orders"), Sk("order", id)>>

\* C4: every store operation of a multi-tenant handler addresses a record
\* scoped to the tenant context the handler was invoked with, and a step
\* changes no other record: with two tenants holding identically named
\* records, invocations in tenant A's context neither read nor change a
\* record of tenant B.
C4_TenantIsolation ==
  [][/\ \A a \in lastAccess' :
          \E p \in Acting : a.ctx = inv[p].tenantId /\ KeyTenant(a.key) = inv[p].tenantId
     /\ DOMAIN db \subseteq DOMAIN db'
     /\ \A k \in Written :
          /\ \E p \in Acting : KeyTenant(k) = inv[p].tenantId
          /\ \E a \in lastAccess' : a.key = k /\ a.op = "write"]_vars

\* invocations in A's context changed A's order, its stock and added records,
\* while every record of B is as seeded
C4_Witness ==
  /\ db[OrderKey("A", "o1")].status # "pending"
  /\ Cardinality(DOMAIN db) > Cardinality(DOMAIN SeedTable)
  /\ \A k \in DOMAIN SeedTable : KeyTenant(k) = "B" => db[k] = SeedTable[k]

\* C5: a changeOrderStatus invocation applies its update only if the order
\* still has the status the invocation read.
C5_ConditionalWrite ==
  [][\A p \in Procs :
       (/\ inv[p].pcH = "update"
        /\ inv[p].tool = "changeOrderStatus"
        /\ inv'[p].pcH = "done"
        /\ inv'[p].ret = "StatusChanged")
       => db[OrderKey(inv[p].tenantId, inv[p].input.orderId)].status = inv[p].item.status]_vars

(***************************************************************************)
(* Properties of the tool calls of converse                                *)
(***************************************************************************)
RefundKeys == {k \in DOMAIN db : k[1][3] = "refunds"}

\* C6: whatever the model requests, the table holds at most one refund record
\* per tenant and order.
C6_AtMostOneRefund ==
  \A k1, k2 \in RefundKeys :
    (KeyTenant(k1) = KeyTenant(k2) /\ db[k1].orderId = db[k2].orderId) => k1 = k2

\* the conditions under which the try block of a tool call throws: no such
\* tool, options undefined, a rejecting publisher, a multi-tenant handler
\* called without a tenant id
Throws(toolUse) ==
  \/ toolUse.name \notin ToolNames
  \/ options = NoOptions
  \/ options.publishUpdate = "rejects"
  \/ isMultiTenant(toolUse.name) /\ options.tenantId = NoTenant
IsErrorResult(item, id) ==
  /\ isToolResult(item)
  /\ item.toolResult.toolUseId = id
  /\ DOMAIN item.toolResult.content[1].text = {"error"}
IsValueResult(item) ==
  isToolResult(item) /\ DOMAIN item.toolResult.content[1].text = {"value"}

\* C7: a tool call that throws does not make converse throw: its step appends
\* an {error: message} result under the call's toolUseId to the result
\* message, goes on to the remaining calls of the turn and, after the last
\* one, pushes the result message and returns to the loop head; from the loop
\* head, within the iteration bound, the next step is a model call on the
\* history so far.  converse never throws inside a turn.
C7_ToolErrorContained ==
  /\ [] (pc = "thrown" => toolUseItems = <<>> /\ ~ IsToolTurn(messages[Len(messages)]))
  /\ [][(pc = "tools" /\ Throws(Head(toolUseItems).toolUse)) =>
          /\ pc' # "thrown"
          /\ Len(message'.content) = Len(message.content) + 1
          /\ SubSeq(message'.content, 1, Len(message.content)) = message.content
          /\ IsErrorResult(message'.content[Len(message'.content)],
                           Head(toolUseItems).toolUse.toolUseId)
          /\ toolUseItems' = Tail(toolUseItems)
          /\ IF toolUseItems' # <<>>
             THEN pc' = "tools" /\ messages' = messages
             ELSE pc' = "model" /\ messages' = Append(messages, message')]_vars
  /\ [][(pc = "model" /\ iteration < MAX_ITERATIONS) =>
          /\ modelCalls' = modelCalls + 1
          /\ request' = conversation \o messages]_vars

\* a turn of two calls: the first threw, the second was executed by its handler,
\* and both results were handed to the next model call
C7_Witness ==
  /\ modelCalls >= 2
  /\ pc # "thrown"
  /\ \E k \in ToolTurns(request) :
       /\ Len(UseIds(request[k])) = 2
       /\ IsErrorResult(request[k + 1].content[1], UseIds(request[k])[1])
       /\ IsValueResult(request[k + 1].content[2])
       /\ \E c \in 1..Len(calls) : calls[c].toolUseId = UseIds(request[k])[2]

\* the input a handler invocation received: its last positional argument
InputOf(call) == call.args[Len(call.args)].obj

\* C8: in a run with a tenant id, every handler invocation receives an input
\* that satisfies the schema of its tool.
C8_ValidatedBeforeHandler ==
  (options # NoOptions /\ options.tenantId # NoTenant) =>
    \A k \in 1..Len(calls) : SchemaValid(calls[k].tool, InputOf(calls[k]))

\* C9: with a rejecting publisher, every call of a registered tool that has
\* been answered was executed by its handler and answered with the handler's
\* result.
C9_PublisherFailureIgnored ==
  (options # NoOptions /\ options.publishUpdate = "rejects") =>
    \A i \in ToolTurns(messages) :
      i < Len(messages) =>
        \A j \in 1..Len(ToolUsesOf(messages[i])) :
          LET use == ToolUsesOf(messages[i])[j].toolUse
          IN use.name \in ToolNames =>
               /\ \E c \in 1..Len(calls) : calls[c].toolUseId = use.toolUseId
               /\ IsValueResult(messages[i + 1].content[j])

\* the number of model responses up to message i of the history
ResponsesUpTo(i) == Cardinality({j \in 1..i : messages[j].role = "assistant"})

\* C10: a call of a tool that is not registered invokes no handler and does
\* not make converse throw; once processed it is answered by an error result
\* under its toolUseId, and after its turn the run is at the loop head, has
\* called the model again, or has used up its iterations.
C10_UnknownToolReported ==
  \A i \in ToolTurns(messages) :
    \A j \in 1..Len(ToolUsesOf(messages[i])) :
      LET use == ToolUsesOf(messages[i])[j].toolUse
      IN use.name \notin ToolNames =>
           /\ \A c \in 1..Len(calls) : calls[c].toolUseId # use.toolUseId
           /\ i = Len(messages) =>
                /\ pc = "tools"
                /\ j <= Len(message.content) => IsErrorResult(message.content[j], use.toolUseId)
           /\ i < Len(messages) =>
                /\ IsErrorResult(messages[i + 1].content[j], use.toolUseId)
                /\ \/ modelCalls > ResponsesUpTo(i)
                   \/ pc = "model"
                   \/ iteration = MAX_ITERATIONS

\* an unregistered tool was requested, answered by an error result, and the
\* model was called again with that result in its history
C10_Witness ==
  /\ modelCalls >= 2
  /\ calls = <<>>
  /\ \E k \in ToolTurns(request) :
       /\ ToolUsesOf(request[k])[1].toolUse.name \notin ToolNames
       /\ IsErrorResult(request[k + 1].content[1], UseIds(request[k])[1])

(***************************************************************************)
(* Properties of the outcome of converse                                   *)
(***************************************************************************)
Failed == <<"Failed to process message">>
Unexpected == <<"Received unexpected response type from model">>
Generic == <<"No response generated">>
LastMessage == messages[Len(messages)]

\* C11: inside the loop converse throws only in the step of a model call, with
\* 'Failed to process message', leaving the history, the table and the handler
\* invocations as they were; a model call either yields a response (a new
\* assistant message, or none and the loop is left) or throws; a step within a
\* turn never throws; once converse has thrown, nothing happens any more.
C11_OnlyModelFailureFatal ==
  /\ [][(pc \in {"model", "tools"} /\ pc' = "thrown") =>
          /\ pc = "model"
          /\ modelCalls' = modelCalls + 1
          /\ result' = Failed
          /\ UNCHANGED <<messages, calls, db, outbox>>]_vars
  /\ [][modelCalls' = modelCalls + 1 =>
          \/ pc' = "thrown"
          \/ pc' = "finish" /\ messages' = messages
          \/ Len(messages') = Len(messages) + 1 /\ messages'[Len(messages')].role = "assistant"]_vars
  /\ [][pc # "thrown"]_vars

\* the model call of a later iteration failed after handlers had been invoked
C11_Witness ==
  /\ pc = "thrown"
  /\ result = Failed
  /\ modelCalls >= 2
  /\ calls # <<>>

\* the assistant messages of the history that hold text
WithText == {k \in 1..Len(messages) :
               messages[k].role = "assistant" /\ SelectSeq(messages[k].content, isText) # <<>>}
LastTextAnywhere ==
  IF WithText = {} THEN NoText
  ELSE JoinTexts(SelectSeq(messages[CHOOSE k \in WithText : \A j \in WithText : j <= k].content,
                           isText))

\* C12: a run that used up its iterations on tool calls returns the last text
\* of an assistant message anywhere in the history, and the generic result
\* only if there is none.
C12_FallbackAnywhere ==
  (pc = "returned" /\ OnlyToolCalls /\ modelCalls = MAX_ITERATIONS) =>
    result = IF sanitizeResponse(LastTextAnywhere, FALSE) # NoText
             THEN sanitizeResponse(LastTextAnywhere, FALSE)
             ELSE Generic

\* the latest response had no message content: nothing was added to the
\* history that was sent
NoContentResponse == pc \in {"finish", "returned"} /\ request = conversation \o messages
\* the latest response had content without tool calls and without text
NeitherResponse ==
  /\ pc \in {"finish", "returned", "thrown"}
  /\ LastMessage.role = "assistant"
  /\ SelectSeq(LastMessage.content, isToolUse) = <<>>
  /\ SelectSeq(LastMessage.content, isText) = <<>>

\* C13: after a response with neither tool calls nor text, or without
\* content, converse does not throw and returns the unexpected-response
\* result.
C13_UnexpectedResponse ==
  /\ (NoContentResponse \/ NeitherResponse) => pc # "thrown"
  /\ (pc = "returned" /\ (NoContentResponse \/ NeitherResponse)) => result = Unexpected

\* C17: every step leaves the entries of the history as they are and appends
\* at most one message: the task at the start, the assistant message in the
\* step of a model call, and otherwise the result message of the turn that
\* ends the history, with the ids of its calls in their order.
C17_HistoryAppendOnly ==
  [][/\ Len(messages') >= Len(messages)
     /\ Len(messages') <= Len(messages) + 1
     /\ SubSeq(messages', 1, Len(messages)) = messages
     /\ Len(messages') = Len(messages) + 1 =>
          LET m == messages'[Len(messages')]
          IN IF pc = "start"
             THEN messages = <<>> /\ m.role = "user"
             ELSE IF modelCalls' = modelCalls + 1
             THEN m.role = "assistant" /\ ~ IsToolTurn(LastMessage)
             ELSE /\ IsToolTurn(LastMessage)
                  /\ IsResultMessage(m)
                  /\ ResultIds(m) = UseIds(LastMessage)]_vars

\* the history of a run of ten turns: the task, ten responses, ten result messages
C17_Witness == pc = "returned" /\ Len(messages) = 2 * MAX_ITERATIONS + 1

\* C18: every message of the history has at least one part.
C18_NonEmptyParts == \A k \in 1..Len(messages) : messages[k].content # <<>>

(***************************************************************************)
(* Properties of a run whose task is cancelled                             *)
(***************************************************************************)
\* C15: in an iteration that began after the task was cancelled, a run with
\* a tenant id invokes no handler (the calls of the iteration in which the cancellation arrived
\* may complete).
C15_CancellationObserved ==
  [][(options # NoOptions /\ options.tenantId # NoTenant /\ cancelAt >= 0 /\ iteration > cancelAt)
       => calls' = calls]_vars

(***************************************************************************)
(* Properties of the agent Lambda                                          *)
(***************************************************************************)
\* C19: the agent is created and registered at most once, and every
\* invocation that holds an agent holds the one of the registered card.
C19_CardPublishedOnce ==
  /\ Len(registry) <= 1
  /\ \A p \in Procs : ginv[p].gpc = "got" => ginv[p].seen.card = registry[1]

(***************************************************************************)
(* Properties of the triage and delivery status handlers                   *)
(***************************************************************************)
\* the triage handler returned a resolution response
ResolutionResponse(res) ==
  /\ "statusCode" \in DOMAIN res
  /\ res.statusCode = 200
  /\ res.body.message \in Summaries

\* C14: for every inbound exception event, also when the orchestrator call
\* throws, the triage handler returns a resolution response rather than
\* returning nothing.
C14_NeverSilentlyUnresolved ==
  (tpc = "done" /\ "detail" \in DOMAIN tevent) => ResolutionResponse(tres)

\* a request is well-formed when it has path parameters and a JSON body with
\* the fields the API requires (test-delivery-status.mjs: exceptionType, notes)
RequiredFields == {"exceptionType", "notes"}
WellFormed(req) ==
  /\ ~RequestThrows(req)
  /\ RequiredFields \subseteq DOMAIN req.body

\* C20: every well-formed delivery status update request is answered with
\* status 202 and a body that holds notifications.authToken and
\* notifications.contextId.
C20_AcceptedWithNotifications ==
  (dpc = "done" /\ WellFormed(dreq.event)) =>
     /\ dres.statusCode = 202
     /\ {"authToken", "contextId"} \subseteq DOMAIN dres.body.notifications

\* the request in flight (or just answered) has left a status record / an event
StoredFor(req) ==
  /\ "statusRecord" \in DOMAIN req
  /\ \E k \in DOMAIN db : k[2] = <<"status", "#", req.statusRecord.timestamp>>
PublishedFor(req) ==
  /\ "statusRecord" \in DOMAIN req
  /\ \E i \in 1..Len(bus) : bus[i].status.timestamp = req.statusRecord.timestamp

\* the body was parsed and lacks a required field
LacksRequired(req) ==
  /\ ~RequestThrows(req)
  /\ ~(RequiredFields \subseteq DOMAIN req.body)

\* C21: a delivery status update request whose body lacks the required
\* fields (exception type and notes) is rejected with status 400, and
\* nothing is stored or published for it.
C21_MissingFieldsRejected ==
  (dpc = "done" /\ LacksRequired(dreq.event)) =>
     /\ dres.statusCode = 400
     /\ ~StoredFor(dreq)
     /\ ~PublishedFor(dreq)

\* C22: a delivery status update request without path parameters (no
\* delivery id) is rejected with status 400.
C22_MissingDeliveryIdRejected ==
  (dpc = "done" /\ dreq.event.pathParameters = [null |-> TRUE]) => dres.statusCode = 400

\* C28: whenever the delivery status handler returns status 500, no status
\* record has been stored and no delivery event has been published for that
\* request.
C28_NoPartialStateOnError ==
  (dpc = "done" /\ dres.statusCode = 500) => (~StoredFor(dreq) /\ ~PublishedFor(dreq))

(***************************************************************************)
(* Properties of the inventory and order tools                             *)
(***************************************************************************)
InventoryKeys == {k \in DOMAIN db : k[1][3] = "inventory"}
AllocationKeys(t) == {k \in DOMAIN db : k[1] = Pk(t, "allocations")}

\* invocation p of allocateInventory has returned
AllocationDone(p) == inv[p].pcH = "done" /\ inv[p].tool = "allocateInventory"
Succeeded(p) == AllocationDone(p) /\ inv[p].ret = "Allocated"

\* the quantity that the successful allocations of tenant t on product p1,
\* as far as they have just returned, report as allocated
ReportedAllocated(p, t) ==
  IF Succeeded(p) /\ inv[p].tenantId = t /\ inv[p].input.productId = "p1"
  THEN inv[p].input.quantity ELSE 0

\* C23: under any interleaving of allocateInventory invocations on a product,
\* availableQuantity never becomes negative and the successful allocations
\* together never exceed the quantity that was available initially.
C23_NoOverAllocation ==
  /\ \A k \in InventoryKeys : db[k].availableQuantity >= 0
  /\ \A t \in Tenants : ReportedAllocated(1, t) + ReportedAllocated(2, t) <= InitialStock

\* changeOrderStatus run to its end on table, with no store failure
StatusApplied(t, input, table) ==
  RunHandler(NewInvocation("changeOrderStatus", t, input, "id"), table, {}, 0).db

\* the order that invocation p of changeOrderStatus names already has the
\* requested status
AlreadyThere(p) ==
  /\ inv[p].pcH \notin {"idle", "done"}
  /\ inv[p].tool = "changeOrderStatus"
  /\ inv[p].tenantId # NoTenant
  /\ OrderKey(inv[p].tenantId, inv[p].input.orderId) \in DOMAIN db
  /\ db[OrderKey(inv[p].tenantId, inv[p].input.orderId)].status = inv[p].input.newStatus

\* C24: changeOrderStatus writes nothing when the order already has the
\* requested status, so that applying a status change twice in sequence
\* leaves the table as applying it once does.
C24_SameStatusNoOp ==
  /\ [][AlreadyThere(1) => db' = db]_vars
  /\ [](\A t \in Tenants : \A input \in StatusInputs :
          StatusApplied(t, input, StatusApplied(t, input, db)) = StatusApplied(t, input, db))

C24_Witness ==
  /\ inv[1].pcH = "done"
  /\ inv[1].tool = "changeOrderStatus"
  /\ inv[1].ret = "AlreadyInStatus"
  /\ db[OrderKey(inv[1].tenantId, "o1")].statusHistory = <<inv[1].input.newStatus>>

\* the allocation record that invocation p wrote is in the table
RecordWritten(p) ==
  \E k \in AllocationKeys(inv[p].tenantId) : db[k].allocationId = inv[p].id

\* C26: after an allocateInventory invocation, also one in which a store
\* operation failed, its allocation record has been written if and only if
\* availableQuantity was decreased (the invocation reports success); an
\* invocation that reports failure leaves no allocation record.
C26_AllOrNothing ==
  \A p \in Procs :
     (AllocationDone(p) /\ inv[p].tenantId # NoTenant) => (RecordWritten(p) <=> Succeeded(p))

RECURSIVE SumAllocated(_)
SumAllocated(keys) ==
  IF keys = {} THEN 0
  ELSE LET k == CHOOSE x \in keys : TRUE
       IN db[k].quantityAllocated + SumAllocated(keys \ {k})

\* C27: after any sequence of allocateInventory invocations (no store
\* operation having failed), a product's allocatedQuantity equals the sum of
\* quantityAllocated over the stored allocation records of that product.
C27_AllocatedMatchesRecords ==
  (inv[1] = Idle /\ faults = 0) =>
     \A t \in Tenants :
        db[<<Pk(t, "inventory"), Sk("product", "p1")>>].allocatedQuantity =
          SumAllocated({k \in AllocationKeys(t) : db[k].productId = "p1"})

(***************************************************************************)
(* Properties of TriageService.submitException                             *)
(***************************************************************************)
AttemptFailed(i) == "failed" \in DOMAIN slog[i]

\* C25: submitException makes at most MAX_RETRIES + 1 attempts, returns the
\* result of the first successful attempt and makes no attempt after it, and
\* throws the error of the last attempt when every attempt has failed.
C25_BoundedRetries ==
  /\ Len(slog) <= MAX_RETRIES + 1
  /\ \A i \in 1..(Len(slog) - 1) : AttemptFailed(i)
  /\ spc = "returned" =>
       /\ slog # <<>>
       /\ ~AttemptFailed(Len(slog))
       /\ sres = [value |-> slog[Len(slog)].ok]
  /\ (spc = "thrown" /\ ValidationError(sinput) = "") =>
       /\ Len(slog) = MAX_RETRIES + 1
       /\ AttemptFailed(Len(slog))
       /\ sres = [error |-> slog[Len(slog)].failed]
  /\ (spc \in {"request", "delay"}) => (attempt = Len(slog) - (IF spc = "delay" THEN 1 ELSE 0))

C25_Witness ==
  /\ spc = "thrown"
  /\ Len(slog) = MAX_RETRIES + 1
  /\ sres.error.of = MAX_RETRIES + 1

(***************************************************************************)
(* Properties of cleanupExistingData                                       *)
(***************************************************************************)
\* the items of the tenant that are in the table
Remaining(table) == {i \in 1..Len(table) : table[i] = ctenant}

\* C29: cleanupExistingData terminates for every table content, also one
\* whose scan comes in several pages, and when it returns no item of the
\* tenant remains.  The loop keeps no state but the table, so it terminates
\* only if every round that is followed by another has deleted an item.
C29_CleanupTerminates ==
  /\ [][(cpc = "loop" /\ cpc' = "loop" /\ cscans' > cscans) =>
          Cardinality(Remaining(ctable')) < Cardinality(Remaining(ctable))]_vars
  /\ [](cpc = "returned" => Remaining(ctable) = {})
====
